---- MODULE Spec2Model ----
(***************************************************************************)
(* Model of package zipfs (src/zipfs/zipfs.go): a read-only io/fs view of  *)
(* a zip archive, its index builder, its sub-tree views and its reader     *)
(* handles.                                                                *)
(*                                                                         *)
(* A Go string is modelled as the tuple of its characters, each a          *)
(* one-character TLA+ string, so that path.Clean, path.Join, fs.ValidPath  *)
(* and strings.TrimPrefix are computed character by character as the       *)
(* library computes them.                                                  *)
(***************************************************************************)
EXTENDS Integers, Sequences, FiniteSets, TLC

(***************************************************************************)
(* Bounds of the model.                                                    *)
(***************************************************************************)
\* longest archive record name (f.Name), in characters
MaxNameLen == 3
\* most records in the archive (len(r.File))
MaxRecords == 2
\* longest record name and most records of the archives the views are made
\* over
MaxViewNameLen == 4
MaxViewRecords == 1
\* longest path argument handed to Open / ReadDir / ReadFile / Sub
MaxPathLen == 3
\* most sub-tree views alive at once
MaxViews == 2
\* most reader handles alive at once
MaxHandles == 1
\* largest small positive count handed to dirReader.ReadDir
MaxCount == 2
\* most decompression streams the fileReaders open
MaxStreams == 2
\* longest record name of the module archives OpenFS reads, and most records
MaxModNameLen == 2
MaxModRecords == 1
\* most records of the @v/list document
MaxDocLen == 2
\* most files package modfs opens or creates
MaxFiles == 2
\* for the calls on the readers: longest record name and most records;
\* where the calls on several readers are interleaved: longest path
\* argument, most reader handles alive at once
MaxMixNameLen == 2
MaxMixRecords == 2
MaxMixPathLen == 2
MaxOpen == 2

\* The characters names are made of: '.' (46) < '/' (47) < 'a' (97).
Alphabet == {".", "/", "a"}

\* byte value of a character, as strings.Compare orders them
Rank(c) == CASE c = "." -> 46 [] c = "/" -> 47 [] OTHER -> 97

\* every string of at most n characters
Strs(n) == UNION {[1..k -> Alphabet] : k \in 0..n}

\* Go's int: the largest and smallest value (the 32-bit build; the 64-bit
\* build wraps in the same way at 2^63)
MaxInt == 2147483647
MinInt == -MaxInt - 1

Dot == <<".">>
DotDot == <<".", ".">>

(***************************************************************************)
(* Library functions the package calls.                                    *)
(***************************************************************************)
\* strings.Compare(a, b) < 0
RECURSIVE StrLess(_, _)
StrLess(a, b) ==
    IF b = <<>> THEN FALSE
    ELSE IF a = <<>> THEN TRUE
    ELSE IF Rank(Head(a)) # Rank(Head(b)) THEN Rank(Head(a)) < Rank(Head(b))
    ELSE StrLess(Tail(a), Tail(b))

\* strings.HasPrefix(s, p)
HasPrefix(s, p) == Len(s) >= Len(p) /\ SubSeq(s, 1, Len(p)) = p

\* strings.TrimPrefix(s, p)
TrimPrefix(s, p) == IF HasPrefix(s, p) THEN SubSeq(s, Len(p) + 1, Len(s)) ELSE s

\* the elements of s between its "/" separators (strings.Split(s, "/"))
RECURSIVE SplitFrom(_, _, _)
SplitFrom(s, i, cur) ==
    IF i > Len(s) THEN <<cur>>
    ELSE IF s[i] = "/" THEN <<cur>> \o SplitFrom(s, i + 1, <<>>)
    ELSE SplitFrom(s, i + 1, Append(cur, s[i]))

Split(s) == SplitFrom(s, 1, <<>>)

\* strings.Join(elems, "/")
RECURSIVE JoinSlash(_)
JoinSlash(elems) ==
    IF elems = <<>> THEN <<>>
    ELSE IF Len(elems) = 1 THEN elems[1]
    ELSE elems[1] \o <<"/">> \o JoinSlash(Tail(elems))

\* index of the last "/" of s, 0 when there is none (strings.LastIndex + 1)
RECURSIVE LastSlash(_, _)
LastSlash(s, i) ==
    IF i = 0 THEN 0 ELSE IF s[i] = "/" THEN i ELSE LastSlash(s, i - 1)

\* path.Clean's element loop: out is the stack of elements written so far
RECURSIVE CleanElems(_, _, _)
CleanElems(elems, rooted, out) ==
    IF elems = <<>> THEN out
    ELSE LET e == Head(elems)
             rest == Tail(elems)
         IN  IF e = <<>> \/ e = Dot THEN CleanElems(rest, rooted, out)
             ELSE IF e = DotDot THEN
                 IF out # <<>> /\ out[Len(out)] # DotDot
                 THEN CleanElems(rest, rooted, SubSeq(out, 1, Len(out) - 1))
                 ELSE IF ~rooted THEN CleanElems(rest, rooted, Append(out, DotDot))
                 ELSE CleanElems(rest, rooted, out)
             ELSE CleanElems(rest, rooted, Append(out, e))

\* path.Clean(p)
Clean(p) ==
    IF p = <<>> THEN Dot
    ELSE LET rooted == p[1] = "/"
             out == JoinSlash(CleanElems(Split(p), rooted, <<>>))
         IN  IF rooted THEN <<"/">> \o out
             ELSE IF out = <<>> THEN Dot ELSE out

\* p without its trailing slashes
RECURSIVE StripSlashes(_)
StripSlashes(p) ==
    IF p # <<>> /\ p[Len(p)] = "/" THEN StripSlashes(SubSeq(p, 1, Len(p) - 1)) ELSE p

\* path.Base(p)
Base(p) ==
    IF p = <<>> THEN Dot
    ELSE LET q == StripSlashes(p)
             r == SubSeq(q, LastSlash(q, Len(q)) + 1, Len(q))
         IN  IF r = <<>> THEN <<"/">> ELSE r

\* path.Dir(p)
Dir(p) == Clean(SubSeq(p, 1, LastSlash(p, Len(p))))

\* path.Join(a, b)
Join(a, b) ==
    LET elems == SelectSeq(<<a, b>>, LAMBDA e : e # <<>>)
    IN  IF elems = <<>> THEN <<>> ELSE Clean(JoinSlash(elems))

\* fs.ValidPath(name)
ValidPath(name) ==
    \/ name = Dot
    \/ LET elems == Split(name)
       IN  \A i \in 1..Len(elems) :
               elems[i] # <<>> /\ elems[i] # Dot /\ elems[i] # DotDot

(***************************************************************************)
(* The index: ZipFS.files, ZipFS.dirs and the dirInfo objects.             *)
(*                                                                         *)
(* A *dirInfo is an index into the sequence objs of dirInfo values; the    *)
(* dirs map and the entries lists hold such indices, so that a dirInfo     *)
(* replaced in the map is still the one its parent's entries list holds.   *)
(* A *zip.File is the index of its record in the archive.  modTime plays   *)
(* no part in any path and is left out.                                    *)
(***************************************************************************)
\* m with m[k] = v (Go: m[k] = v)
MapPut(m, k, v) == [x \in DOMAIN m \cup {k} |-> IF x = k THEN v ELSE m[x]]

\* the empty map
EmptyMap == [x \in {} |-> 0]

\* a directory entry (fs.DirEntry): a fileEntry over record ref, or the
\* dirInfo objs[ref]
FileEntry(i) == [kind |-> "file", ref |-> i]
DirEntry(j) == [kind |-> "dir", ref |-> j]

\* index of the root dirInfo in objs
RootObj == 1

\* NewZipFS before buildIndex: no file, the root directory with no entry
NewIndex ==
    [files |-> EmptyMap,
     dirs |-> MapPut(EmptyMap, Dot, RootObj),
     objs |-> <<[name |-> Dot, entries |-> <<>>]>>]

\* parent.entries = append(parent.entries, entry)
AppendEntry(objs, j, entry) ==
    [objs EXCEPT ![j].entries = Append(@, entry)]

\* buildIndex's loop "Create entries for all parent directories up to root"
RECURSIVE WalkUp(_, _, _)
WalkUp(st, dir, entry) ==
    IF dir \in DOMAIN st.dirs
    THEN [st EXCEPT !.objs = AppendEntry(st.objs, st.dirs[dir], entry)]
    ELSE LET j == Len(st.objs) + 1
             parent == [name |-> Base(dir), entries |-> <<entry>>]
         IN  WalkUp([st EXCEPT !.objs = Append(@, parent),
                               !.dirs = MapPut(@, dir, j)],
                    Dir(dir), DirEntry(j))

\* one turn of buildIndex's loop over z.reader.File: record i, f = arch[i]
IndexRecord(st, i, f) ==
    LET isDir == Len(f.Name) = 0 \/ f.Name[Len(f.Name)] = "/"
        name == Clean(f.Name)
    IN  IF name = Dot THEN st
        ELSE IF name[1] = "/" THEN st
        ELSE IF isDir THEN
            IF f.Size # 0 THEN st
            ELSE LET j == Len(st.objs) + 1
                     dir == [name |-> Base(name), entries |-> <<>>]
                 IN  WalkUp([st EXCEPT !.objs = Append(@, dir),
                                       !.dirs = MapPut(@, name, j)],
                            Dir(name), DirEntry(j))
        ELSE WalkUp([st EXCEPT !.files = MapPut(@, name, i)],
                    Dir(name), FileEntry(i))

\* buildIndex over the first n records of arch
RECURSIVE buildIndex(_, _)
buildIndex(arch, n) ==
    IF n = 0 THEN NewIndex
    ELSE IndexRecord(buildIndex(arch, n - 1), n, arch[n])

\* NewZipFS(r): the index of archive arch
NewZipFS(arch) == buildIndex(arch, Len(arch))

\* fileEntry.Name / dirInfo.Name
EntryName(arch, objs, e) ==
    IF e.kind = "file" THEN Base(arch[e.ref].Name) ELSE objs[e.ref].name

(***************************************************************************)
(* Results of the operations.  A result is ok, err (an error value) or     *)
(* panic (a run-time panic).  An *fs.PathError has op, path and err; any   *)
(* other error has op = "" and no path.                                    *)
(***************************************************************************)
\* rc: the decompression stream streams[rc] of a fileReader, 0 for nil
NoHandle == [kind |-> "nil", info |-> 0, path |-> <<>>, pos |-> 0, file |-> 0, rc |-> 0]
NilFS == [fsKind |-> "nil", prefix |-> <<>>]

NoResult ==
    [kind |-> "none", op |-> "", path |-> <<>>, err |-> "",
     handle |-> NoHandle, entries |-> <<>>, data |-> 0, fs |-> NilFS]

\* &fs.PathError{Op: op, Path: path, Err: err}
PathError(op, path, err) ==
    [NoResult EXCEPT !.kind = "err", !.op = op, !.path = path, !.err = err]

\* an error that is no *fs.PathError (io.EOF, a decompression error)
PlainError(err) == [NoResult EXCEPT !.kind = "err", !.err = err]

Panic == [NoResult EXCEPT !.kind = "panic"]

\* &dirReader{info: dir, path: name}
NewDirReader(j, name) == [NoHandle EXCEPT !.kind = "dir", !.info = j, !.path = name]

\* &fileReader{file: file}
NewFileReader(i) == [NoHandle EXCEPT !.kind = "file", !.file = i]

\* slices.SortFunc by strings.Compare of the names: the insertion sort the
\* library runs on a short slice
RECURSIVE InsertSorted(_, _, _, _)
InsertSorted(arch, objs, sorted, e) ==
    IF sorted = <<>> THEN <<e>>
    ELSE LET l == sorted[Len(sorted)]
         IN  IF StrLess(EntryName(arch, objs, e), EntryName(arch, objs, l))
             THEN Append(InsertSorted(arch, objs, SubSeq(sorted, 1, Len(sorted) - 1), e), l)
             ELSE Append(sorted, e)

RECURSIVE SortEntries(_, _, _)
SortEntries(arch, objs, es) ==
    IF es = <<>> THEN <<>>
    ELSE InsertSorted(arch, objs,
                      SortEntries(arch, objs, SubSeq(es, 1, Len(es) - 1)),
                      es[Len(es)])

(***************************************************************************)
(* ZipFS: the root view.  z is [arch, files, dirs, objs].                  *)
(***************************************************************************)
\* Open without the fs.ValidPath test
ZipOpenUnchecked(z, name) ==
    LET c == Clean(name)
    IN  IF c \in DOMAIN z.dirs
        THEN [NoResult EXCEPT !.kind = "ok", !.handle = NewDirReader(z.dirs[c], c)]
        ELSE IF c \in DOMAIN z.files
        THEN [NoResult EXCEPT !.kind = "ok", !.handle = NewFileReader(z.files[c])]
        ELSE PathError("open", c, "ErrNotExist")

ZipOpen(z, name) ==
    IF ~ValidPath(name) THEN PathError("open", name, "ErrInvalid")
    ELSE LET c == Clean(name)
         IN  IF c \in DOMAIN z.dirs
             THEN [NoResult EXCEPT !.kind = "ok", !.handle = NewDirReader(z.dirs[c], c)]
             ELSE IF c \in DOMAIN z.files
             THEN [NoResult EXCEPT !.kind = "ok", !.handle = NewFileReader(z.files[c])]
             ELSE PathError("open", c, "ErrNotExist")

ZipReadDir(z, name) ==
    IF ~ValidPath(name) THEN PathError("readdir", name, "ErrInvalid")
    ELSE LET cleanName == Clean(name)
         IN  IF cleanName \notin DOMAIN z.dirs
             THEN PathError("readdir", name, "ErrNotExist")
             ELSE [NoResult EXCEPT
                     !.kind = "ok",
                     !.entries = SortEntries(z.arch, z.objs,
                                             z.objs[z.dirs[cleanName]].entries)]

\* io: what the decompression does: "ok", "openfail" (file.Open fails) or
\* "readfail" (io.ReadAll fails); the data of record i is i
ZipReadFile(z, name, io) ==
    IF ~ValidPath(name) THEN PathError("readfile", name, "ErrInvalid")
    ELSE LET cleanName == Clean(name)
         IN  IF cleanName \notin DOMAIN z.files
             THEN PathError("readfile", name, "ErrNotExist")
             ELSE IF io = "openfail" THEN PathError("readfile", name, "ErrIO")
             ELSE IF io = "readfail" THEN PlainError("ErrIO")
             ELSE [NoResult EXCEPT !.kind = "ok", !.data = z.files[cleanName]]

\* the decompression streams ReadFile opens (file.Open succeeded) and
\* releases (the deferred rc.Close) before it returns
ZipReadFileStreams(z, name, io) ==
    IF ValidPath(name) /\ Clean(name) \in DOMAIN z.files /\ io # "openfail"
    THEN [opened |-> 1, released |-> 1]
    ELSE [opened |-> 0, released |-> 0]

ZipSub(z, dir) ==
    IF ~ValidPath(dir) THEN PathError("sub", dir, "ErrInvalid")
    ELSE LET c == Clean(dir)
         IN  IF c = Dot
             THEN [NoResult EXCEPT !.kind = "ok", !.fs = [fsKind |-> "root", prefix |-> <<>>]]
             ELSE IF c \notin DOMAIN z.dirs THEN PathError("sub", c, "ErrNotExist")
             ELSE [NoResult EXCEPT !.kind = "ok", !.fs = [fsKind |-> "new", prefix |-> c]]

(***************************************************************************)
(* subFS: a sub-tree view.  s is [prefix].                                 *)
(***************************************************************************)
\* dirReader.rebase(prefix)
Rebase(h, prefix) ==
    IF h.kind = "dir" THEN [h EXCEPT !.path = TrimPrefix(h.path, prefix \o <<"/">>)] ELSE h

\* subFS.rebaseAny(f), for the fs.File that Open returns
RebaseAny(s, res) == [res EXCEPT !.handle = Rebase(res.handle, s.prefix)]

\* rebaseError with the path left as the ZipFS reported it
RebaseErrorKept(s, res) == res

\* subFS.rebaseError(err)
RebaseError(s, res) ==
    IF res.kind = "err" /\ res.op # ""
    THEN [res EXCEPT !.path = TrimPrefix(res.path, s.prefix \o <<"/">>)]
    ELSE res

SubOpen(z, s, name) ==
    IF ~ValidPath(name) THEN PathError("open", name, "ErrInvalid")
    ELSE RebaseError(s, RebaseAny(s, ZipOpen(z, Join(s.prefix, name))))

\* rebaseSlice finds no rebase method on a fileEntry or a *dirInfo
SubReadDir(z, s, name) ==
    IF ~ValidPath(name) THEN PathError("readdir", name, "ErrInvalid")
    ELSE RebaseError(s, ZipReadDir(z, Join(s.prefix, name)))

SubReadFile(z, s, name, io) ==
    IF ~ValidPath(name) THEN PathError("readfile", name, "ErrInvalid")
    ELSE RebaseError(s, ZipReadFile(z, Join(s.prefix, name), io))

SubReadFileStreams(z, s, name, io) ==
    IF ~ValidPath(name) THEN [opened |-> 0, released |-> 0]
    ELSE ZipReadFileStreams(z, Join(s.prefix, name), io)

SubSub(z, s, dir) ==
    IF ~ValidPath(dir) THEN PathError("sub", dir, "ErrInvalid")
    ELSE RebaseError(s, ZipSub(z, Join(s.prefix, dir)))

(***************************************************************************)
(* dirReader                                                               *)
(***************************************************************************)
\* d.pos + n in Go's int, for d.pos >= 0 and n > 0: wraps past MaxInt
AddInt(a, b) == IF b > MaxInt - a THEN MinInt + (a - (MaxInt - b) - 1) ELSE a + b

\* dirReader.ReadDir(n): [res, pos], the result and the cursor afterwards
DirReadDir(z, d, n) ==
    LET entries == z.objs[d.info].entries
        len == Len(entries)
    IN  IF n <= 0
        THEN [res |-> [NoResult EXCEPT !.kind = "ok",
                                       !.entries = SubSeq(entries, d.pos + 1, len)],
              pos |-> len]
        ELSE IF d.pos >= len THEN [res |-> PlainError("EOF"), pos |-> d.pos]
        ELSE LET sum == AddInt(d.pos, n)
                 end == IF sum > len THEN len ELSE sum
             IN  IF end < d.pos THEN [res |-> Panic, pos |-> d.pos]
                 ELSE IF end = d.pos THEN [res |-> PlainError("EOF"), pos |-> end]
                 ELSE [res |-> [NoResult EXCEPT
                                  !.kind = "ok",
                                  !.entries = SubSeq(entries, d.pos + 1, end)],
                       pos |-> end]

\* dirReader.Read
DirRead(d) == PathError("read", d.path, "ErrInvalid")

(***************************************************************************)
(* fileReader.  A decompression stream (the io.ReadCloser of file.Open) is *)
(* [file, eof, closes]: the record it decompresses, whether its data has   *)
(* been read, and how many times it has been closed; by is the reader that *)
(* opened it.  The data of record i is read in one piece, and is i.        *)
(***************************************************************************)
NewStream(h, i) == [file |-> i, by |-> h, eof |-> FALSE, closes |-> 0]

\* rc.Read(b) on the stream st: [res, st]
StreamRead(st, io) ==
    IF io = "readfail" THEN [res |-> PlainError("ErrIO"), st |-> st]
    ELSE IF st.eof THEN [res |-> PlainError("EOF"), st |-> st]
    ELSE [res |-> [NoResult EXCEPT !.kind = "ok", !.data = st.file],
          st |-> [st EXCEPT !.eof = TRUE]]

\* fileReader.Read on reader h = hs[h]: [res, rc, streams], the result, the
\* reader's stream and the streams afterwards
FileRead(hs, h, ss, io) ==
    IF hs[h].rc = 0
    THEN IF io = "openfail"
         THEN [res |-> PlainError("ErrIO"), rc |-> 0, streams |-> ss]
         ELSE LET k == Len(ss) + 1
                  r == StreamRead(NewStream(h, hs[h].file), io)
              IN  [res |-> r.res, rc |-> k, streams |-> Append(ss, r.st)]
    ELSE LET r == StreamRead(ss[hs[h].rc], io)
         IN  [res |-> r.res, rc |-> hs[h].rc,
              streams |-> [ss EXCEPT ![hs[h].rc] = r.st]]

\* Close that keeps the stream it has closed
FileCloseKept(hs, h, ss, io) ==
    IF hs[h].rc # 0
    THEN [res |-> IF io = "ok" THEN [NoResult EXCEPT !.kind = "ok"]
                  ELSE PlainError("ErrIO"),
          rc |-> hs[h].rc,
          streams |-> [ss EXCEPT ![hs[h].rc].closes = @ + 1]]
    ELSE [res |-> [NoResult EXCEPT !.kind = "ok"], rc |-> 0, streams |-> ss]

\* fileReader.Close on reader h = hs[h]; io: what rc.Close returns
FileClose(hs, h, ss, io) ==
    IF hs[h].rc # 0
    THEN [res |-> IF io = "ok" THEN [NoResult EXCEPT !.kind = "ok"]
                  ELSE PlainError("ErrIO"),
          rc |-> 0,
          streams |-> [ss EXCEPT ![hs[h].rc].closes = @ + 1]]
    ELSE [res |-> [NoResult EXCEPT !.kind = "ok"], rc |-> 0, streams |-> ss]

(***************************************************************************)
(* Package modfs (src/modfs.go).                                           *)
(***************************************************************************)
\* what a call returns: ok with its value, or err
NoModResult == [kind |-> "none", err |-> "", versions |-> <<>>, fs |-> NilFS]
ModError(err) == [NoModResult EXCEPT !.kind = "err", !.err = err]

\* a file of the operating system or of the underlying fs.FS: kind "src"
\* (opened from the underlying file system) or "tmp" (made by
\* os.CreateTemp), the number of Close calls on it and of os.Remove calls on
\* its name
NoFile == [kind |-> "none", closes |-> 0, removed |-> 0]
NewFile(kind) == [NoFile EXCEPT !.kind = kind]
FileClosed(x) == [x EXCEPT !.closes = @ + 1]
FileRemoved(x) == [x EXCEPT !.removed = @ + 1]

\* ModFS.openJSON: open is what m.fs.Open does, doc the records of the
\* document; file is the file it opened, as it leaves it
OpenJSON(open, doc) ==
    IF open = "fail" THEN [res |-> ModError("open"), file |-> NoFile]
    ELSE IF doc = <<>>
    THEN [res |-> ModError("JSON expected"), file |-> FileClosed(NewFile("src"))]
    ELSE [res |-> [NoModResult EXCEPT !.kind = "ok"], file |-> NewFile("src")]

\* the loop "for dec.More()" of ListVersions over the records left, with the
\* slice versions as it stands: a record is decoded into v, and v is dropped
RECURSIVE DecodeAll(_, _)
DecodeAll(doc, versions) ==
    IF doc = <<>> THEN [NoModResult EXCEPT !.kind = "ok", !.versions = versions]
    ELSE IF ~Head(doc).good THEN ModError("decode")
    ELSE DecodeAll(Tail(doc), versions)

\* Module.ListVersions: [res, file]; the deferred dec.Close closes the file
ListVersions(open, doc) ==
    LET j == OpenJSON(open, doc)
    IN  IF j.res.kind = "err" THEN j
        ELSE [res |-> DecodeAll(doc, <<>>), file |-> FileClosed(j.file)]

\* r.Close() of OpenFS, over the files [f, tmp]: f.Close() for a seekable
\* source, else fi.Close() and os.Remove(fi.Name())
RClose(seekable, fs) ==
    IF seekable THEN [fs EXCEPT !.f = FileClosed(@)]
    ELSE [fs EXCEPT !.tmp = FileRemoved(FileClosed(@))]

\* Version.OpenFS over the archive of index z.  seekable: the file is an
\* io.ReaderAt; fault: the first step that fails ("none": no step); dir: the
\* directory module@version handed to Sub.  [res, f, tmp]: the result, and
\* the file and the temporary file as the call leaves them
OpenFS(z, dir, seekable, fault) ==
    IF fault = "open" THEN [res |-> ModError("open"), f |-> NoFile, tmp |-> NoFile]
    ELSE IF ~seekable /\ fault = "createtemp"
    THEN [res |-> ModError("createtemp"),
          f |-> FileClosed(NewFile("src")), tmp |-> NoFile]
    ELSE IF ~seekable /\ fault \in {"copy", "seek"}
    THEN [res |-> ModError(fault),
          f |-> FileClosed(NewFile("src")), tmp |-> FileClosed(NewFile("tmp"))]
    ELSE LET fs == IF seekable
                   THEN [f |-> NewFile("src"), tmp |-> NoFile]
                   ELSE [f |-> FileClosed(NewFile("src")), tmp |-> NewFile("tmp")]
             closed == RClose(seekable, fs)
             subfs == ZipSub(z, dir)
         IN  IF fault \in {"stat", "isdir", "zip"}
             THEN [res |-> ModError(fault), f |-> closed.f, tmp |-> closed.tmp]
             ELSE IF subfs.kind = "err"
             THEN [res |-> ModError("zipread"), f |-> closed.f, tmp |-> closed.tmp]
             ELSE [res |-> [NoModResult EXCEPT !.kind = "ok", !.fs = subfs.fs],
                   f |-> fs.f, tmp |-> fs.tmp]

\* mlast: op, its arguments and what the environment did (doc, open, dir,
\* seekable, fault), the result res, and the files the call opened:
\* osfiles[f], osfiles[tmp] (0: none); fs > 0: the ZipFS returned is the one
\* closers[fs] closes
NoModCall ==
    [op |-> "", open |-> "", doc |-> <<>>, dir |-> <<>>, seekable |-> FALSE,
     fault |-> "", res |-> NoModResult, f |-> 0, tmp |-> 0, fs |-> 0]

(***************************************************************************)
(* The state machine.                                                      *)
(***************************************************************************)
VARIABLES
    archive,    \* z.reader.File: the records [Name, Size], Size = UncompressedSize64
    files,      \* z.files: cleaned path -> record
    dirs,       \* z.dirs: cleaned path -> dirInfo
    objs,       \* the dirInfo objects
    views,      \* the subFS values made so far, each [prefix]
    handles,    \* the readers made by Open so far
    last,       \* the last call and what it returned
    streams,    \* the decompression streams the fileReaders opened
    osfiles,    \* the files OpenFS opened or created
    closers,    \* the io.Closer of each ZipFS that OpenFS returned
    mlast       \* the last call on package modfs and what it returned

\* the state of package modfs
modvars == <<osfiles, closers, mlast>>

vars == <<archive, files, dirs, objs, views, handles, last, streams, modvars>>

\* the ZipFS value
Z == [arch |-> archive, files |-> files, dirs |-> dirs, objs |-> objs]

\* the path arguments of the calls: any string, valid or not
Paths == Strs(MaxPathLen)

\* buildIndex's isDir: the record name is empty or ends with "/"
IsDirName(n) == Len(n) = 0 \/ n[Len(n)] = "/"

\* the archives of at most n records with names of at most len characters,
\* in every order; buildIndex reads the size of a directory record only, so
\* a file record is given size 0
ArchivesOf(len, n) ==
    UNION {[1..k -> {r \in [Name : Strs(len), Size : {0, 1}] :
                        r.Size = 0 \/ IsDirName(r.Name)}] : k \in 0..n}
Archives == ArchivesOf(MaxNameLen, MaxRecords)

\* what decompressing a file does
IOs == {"ok", "openfail", "readfail"}

\* the counts handed to dirReader.ReadDir
Counts == {MinInt, -1} \cup (0..MaxCount) \cup {MaxInt}

\* last: op, the receiver (recv: 0 the ZipFS, k the view views[k]; h: the
\* handle handles[h]), the arguments (arg, n), the result res, and for a
\* result that is an object which one it is: hid > 0 the new handle
\* handles[hid]; fsid = 0 the ZipFS itself, fsid = k > 0 the view views[k]
\* opened, released: the streams a ReadFile opened and released within the
\* call
NoCall ==
    [op |-> "", recv |-> 0, h |-> 0, arg |-> <<>>, n |-> 0,
     res |-> NoResult, hid |-> 0, fsid |-> -1, opened |-> 0, released |-> 0]

Call(op, recv, arg, res) ==
    [NoCall EXCEPT !.op = op, !.recv = recv, !.arg = arg, !.res = res]

\* the archives a zip writer makes: every name a valid path, or a valid path
\* followed by "/" for a directory; a name may come twice
WrittenName(n) ==
    \/ ValidPath(n) /\ n # Dot
    \/ Len(n) > 1 /\ n[Len(n)] = "/" /\ ValidPath(SubSeq(n, 1, Len(n) - 1))
            /\ SubSeq(n, 1, Len(n) - 1) # Dot
Written(as) == {a \in as : \A i \in 1..Len(a) : WrittenName(a[i].Name)}

\* the state after NewZipFS(r), for every archive r of the set as
Built(as) ==
    /\ archive \in as
    /\ LET z == NewZipFS(archive)
       IN  files = z.files /\ dirs = z.dirs /\ objs = z.objs
    /\ views = <<>>
    /\ handles = <<>>
    /\ last = NoCall
    /\ streams = <<>>
    /\ osfiles = <<>>
    /\ closers = <<>>
    /\ mlast = NoModCall

\* any archive within the bounds
InitIndex == Built(Archives)

\* a written archive within the bounds
Init == Built(Written(Archives))

\* a written archive with short names
InitMix == Built(Written(ArchivesOf(MaxMixNameLen, MaxMixRecords)))

\* any archive of fewer records with longer names
InitPaths == Built(ArchivesOf(MaxViewNameLen, MaxViewRecords))

\* a written archive of fewer records with longer names, deep enough for a
\* directory inside a directory
InitView == Built(Written(ArchivesOf(MaxViewNameLen, MaxViewRecords)))

\* The calls are those of one caller, made one after the other: a call is
\* made once the result of the call before it has been taken.
Idle == last = NoCall

\* the caller takes the result of its last call
Return ==
    /\ ~Idle
    /\ last' = NoCall
    /\ UNCHANGED <<modvars, streams, archive, files, dirs, objs, views, handles>>

\* an Open that returned res: a successful one makes a new reader, while
\* fewer than cap readers are alive
OpenedWithin(cap, op, recv, name, res) ==
    IF res.kind = "ok"
    THEN /\ Len(handles) < cap
         /\ handles' = Append(handles, res.handle)
         /\ last' = [Call(op, recv, name, res) EXCEPT !.hid = Len(handles) + 1]
    ELSE /\ handles' = handles
         /\ last' = Call(op, recv, name, res)

Opened(op, recv, name, res) == OpenedWithin(MaxHandles, op, recv, name, res)

\* a Sub that returned res: the ZipFS itself, or a new subFS
Subbed(op, recv, name, res) ==
    IF res.kind = "ok" /\ res.fs.fsKind = "new"
    THEN /\ Len(views) < MaxViews
         /\ views' = Append(views, [prefix |-> res.fs.prefix])
         /\ last' = [Call(op, recv, name, res) EXCEPT !.fsid = Len(views) + 1]
    ELSE /\ views' = views
         /\ last' = [Call(op, recv, name, res) EXCEPT
                       !.fsid = IF res.kind = "ok" THEN 0 ELSE -1]

ZOpen(name) ==
    /\ Idle
    /\ Opened("Open", 0, name, ZipOpen(Z, name))
    /\ UNCHANGED <<modvars, streams, archive, files, dirs, objs, views>>

ZReadDir(name) ==
    /\ Idle
    /\ last' = Call("ReadDir", 0, name, ZipReadDir(Z, name))
    /\ UNCHANGED <<modvars, streams, archive, files, dirs, objs, views, handles>>

ZReadFile(name, io) ==
    /\ Idle
    /\ LET e == ZipReadFileStreams(Z, name, io)
       IN  last' = [Call("ReadFile", 0, name, ZipReadFile(Z, name, io)) EXCEPT
                      !.opened = e.opened, !.released = e.released]
    /\ UNCHANGED <<modvars, streams, archive, files, dirs, objs, views, handles>>

ZSub(name) ==
    /\ Idle
    /\ Subbed("Sub", 0, name, ZipSub(Z, name))
    /\ UNCHANGED <<modvars, streams, archive, files, dirs, objs, handles>>

VOpen(v, name) ==
    /\ Idle
    /\ Opened("Open", v, name, SubOpen(Z, views[v], name))
    /\ UNCHANGED <<modvars, streams, archive, files, dirs, objs, views>>

VReadDir(v, name) ==
    /\ Idle
    /\ last' = Call("ReadDir", v, name, SubReadDir(Z, views[v], name))
    /\ UNCHANGED <<modvars, streams, archive, files, dirs, objs, views, handles>>

VReadFile(v, name, io) ==
    /\ Idle
    /\ LET e == SubReadFileStreams(Z, views[v], name, io)
       IN  last' = [Call("ReadFile", v, name, SubReadFile(Z, views[v], name, io)) EXCEPT
                      !.opened = e.opened, !.released = e.released]
    /\ UNCHANGED <<modvars, streams, archive, files, dirs, objs, views, handles>>

VSub(v, name) ==
    /\ Idle
    /\ Subbed("Sub", v, name, SubSub(Z, views[v], name))
    /\ UNCHANGED <<modvars, streams, archive, files, dirs, objs, handles>>

\* ZipFS.Open and subFS.Open where several readers are alive at once
ZOpenMix(name) ==
    /\ Idle
    /\ OpenedWithin(MaxOpen, "Open", 0, name, ZipOpen(Z, name))
    /\ UNCHANGED <<modvars, streams, archive, files, dirs, objs, views>>

VOpenMix(v, name) ==
    /\ Idle
    /\ OpenedWithin(MaxOpen, "Open", v, name, SubOpen(Z, views[v], name))
    /\ UNCHANGED <<modvars, streams, archive, files, dirs, objs, views>>

\* dirReader.ReadDir(n) on handles[h]
HReadDir(h, n) ==
    /\ Idle
    /\ handles[h].kind = "dir"
    /\ LET r == DirReadDir(Z, handles[h], n)
       IN  /\ handles' = [handles EXCEPT ![h].pos = r.pos]
           /\ last' = [NoCall EXCEPT !.op = "dirReader.ReadDir", !.h = h, !.n = n,
                                     !.res = r.res]
    /\ UNCHANGED <<modvars, streams, archive, files, dirs, objs, views>>

\* dirReader.Read on handles[h]
HRead(h) ==
    /\ Idle
    /\ handles[h].kind = "dir"
    /\ last' = [NoCall EXCEPT !.op = "dirReader.Read", !.h = h,
                              !.res = DirRead(handles[h])]
    /\ UNCHANGED <<modvars, streams, archive, files, dirs, objs, views, handles>>

\* a Close that rewinds every directory reader
HCloseAll(h) ==
    /\ Idle
    /\ handles[h].kind = "dir"
    /\ handles' = [k \in 1..Len(handles) |->
                      IF handles[k].kind = "dir" THEN [handles[k] EXCEPT !.pos = 0]
                      ELSE handles[k]]
    /\ last' = [NoCall EXCEPT !.op = "dirReader.Close", !.h = h,
                              !.res = [NoResult EXCEPT !.kind = "ok"]]
    /\ UNCHANGED <<modvars, streams, archive, files, dirs, objs, views>>

\* dirReader.Close on handles[h]
HClose(h) ==
    /\ Idle
    /\ handles[h].kind = "dir"
    /\ handles' = [handles EXCEPT ![h].pos = 0]
    /\ last' = [NoCall EXCEPT !.op = "dirReader.Close", !.h = h,
                              !.res = [NoResult EXCEPT !.kind = "ok"]]
    /\ UNCHANGED <<modvars, streams, archive, files, dirs, objs, views>>

\* the state of package zipfs
zipvars == <<archive, files, dirs, objs, views, handles, last, streams>>

\* the records of a @v/list document: the version each holds and whether
\* Decode accepts it
DocRecords == [Version : {"v1", "v2"}, good : BOOLEAN]
Docs == UNION {[1..k -> DocRecords] : k \in 0..MaxDocLen}

\* what m.fs.Open does
Opens == {"ok", "fail"}

\* the first step of OpenFS that fails
Faults == {"none", "open", "createtemp", "copy", "seek", "stat", "isdir", "zip"}

\* the module archives: written archives with short names
InitMod == Built(Written(ArchivesOf(MaxModNameLen, MaxModRecords)))

MIdle == mlast = NoModCall

\* the caller takes the result of its last call on package modfs
MReturn ==
    /\ ~MIdle
    /\ mlast' = NoModCall
    /\ UNCHANGED <<zipvars, osfiles, closers>>

\* osfs with the file x (when there is one) at its end
WithFile(osfs, x) == IF x = NoFile THEN osfs ELSE Append(osfs, x)

\* Module.ListVersions
MListVersions(open, doc) ==
    /\ MIdle
    /\ LET r == ListVersions(open, doc)
       IN  /\ Len(WithFile(osfiles, r.file)) <= MaxFiles
           /\ osfiles' = WithFile(osfiles, r.file)
           /\ mlast' = [NoModCall EXCEPT
                          !.op = "ListVersions", !.open = open, !.doc = doc,
                          !.res = r.res,
                          !.f = IF r.file = NoFile THEN 0 ELSE Len(osfiles) + 1]
    /\ UNCHANGED <<zipvars, closers>>

\* Version.OpenFS
MOpenFS(dir, seekable, fault) ==
    /\ MIdle
    /\ LET r == OpenFS(Z, dir, seekable, fault)
           withF == WithFile(osfiles, r.f)
           withTmp == WithFile(withF, r.tmp)
           f == IF r.f = NoFile THEN 0 ELSE Len(withF)
           tmp == IF r.tmp = NoFile THEN 0 ELSE Len(withTmp)
       IN  /\ Len(withTmp) <= MaxFiles
           /\ osfiles' = withTmp
           /\ closers' = IF r.res.kind = "ok"
                         THEN Append(closers, [f |-> f, tmp |-> tmp,
                                               seekable |-> seekable, closed |-> 0])
                         ELSE closers
           /\ mlast' = [NoModCall EXCEPT
                          !.op = "OpenFS", !.dir = dir, !.seekable = seekable,
                          !.fault = fault, !.res = r.res, !.f = f, !.tmp = tmp,
                          !.fs = IF r.res.kind = "ok" THEN Len(closers) + 1 ELSE 0]
    /\ UNCHANGED zipvars

\* Close of the ZipFS that OpenFS returned, by the caller that holds it
MCloseFS(c) ==
    /\ MIdle
    /\ closers[c].closed = 0
    /\ LET k == closers[c]
           fs == [f |-> osfiles[k.f],
                  tmp |-> IF k.tmp = 0 THEN NoFile ELSE osfiles[k.tmp]]
           closed == RClose(k.seekable, fs)
       IN  osfiles' = [i \in 1..Len(osfiles) |->
                          IF i = k.f THEN closed.f
                          ELSE IF i = k.tmp THEN closed.tmp
                          ELSE osfiles[i]]
    /\ closers' = [closers EXCEPT ![c].closed = 1]
    /\ mlast' = [NoModCall EXCEPT !.op = "Close", !.fs = c,
                                  !.res = [NoModResult EXCEPT !.kind = "ok"]]
    /\ UNCHANGED zipvars

\* what closing a stream does
CloseIOs == {"ok", "fail"}

\* fileReader.Read on handles[h]
FRead(h, io) ==
    /\ Idle
    /\ handles[h].kind = "file"
    /\ LET r == FileRead(handles, h, streams, io)
       IN  /\ Len(r.streams) <= MaxStreams
           /\ handles' = [handles EXCEPT ![h].rc = r.rc]
           /\ streams' = r.streams
           /\ last' = [NoCall EXCEPT !.op = "fileReader.Read", !.h = h, !.res = r.res]
    /\ UNCHANGED <<modvars, archive, files, dirs, objs, views>>

\* fileReader.Close on handles[h]
FClose(h, io) ==
    /\ Idle
    /\ handles[h].kind = "file"
    /\ LET r == FileClose(handles, h, streams, io)
       IN  /\ handles' = [handles EXCEPT ![h].rc = r.rc]
           /\ streams' = r.streams
           /\ last' = [NoCall EXCEPT !.op = "fileReader.Close", !.h = h, !.res = r.res]
    /\ UNCHANGED <<modvars, archive, files, dirs, objs, views>>

Views == 1..Len(views)
Handles == 1..Len(handles)

\* the index and the calls on the ZipFS that read it, over any archive
NextIndex ==
    \/ \E name \in Paths : ZReadDir(name)
    \/ \E name \in Paths, io \in IOs : ZReadFile(name, io)
    \/ Return

SpecIndex == InitIndex /\ [][NextIndex]_vars

\* the views: made by Sub, and every call on them
NextView ==
    \/ \E name \in Paths : ZSub(name)
    \/ \E v \in Views, name \in Paths : VOpen(v, name)
    \/ \E v \in Views, name \in Paths : VReadDir(v, name)
    \/ \E v \in Views, name \in Paths, io \in IOs : VReadFile(v, name, io)
    \/ \E v \in Views, name \in Paths : VSub(v, name)
    \/ \E h \in Handles : HRead(h)
    \/ Return

SpecView == InitView /\ [][NextView]_vars

\* the readers: made by Open, and every call on them
NextReader ==
    \/ \E name \in Paths : ZOpen(name)
    \/ \E h \in Handles, n \in Counts : HReadDir(h, n)
    \/ \E h \in Handles : HRead(h)
    \/ \E h \in Handles : HClose(h)
    \/ Return

SpecReader == Init /\ [][NextReader]_vars

\* every call that takes a path, on the ZipFS and on the views, over any
\* archive
NextPaths ==
    \/ \E name \in Paths : ZOpen(name)
    \/ \E name \in Paths : ZReadDir(name)
    \/ \E name \in Paths, io \in IOs : ZReadFile(name, io)
    \/ \E name \in Paths : ZSub(name)
    \/ \E v \in Views, name \in Paths : VOpen(v, name)
    \/ \E v \in Views, name \in Paths : VReadDir(v, name)
    \/ \E v \in Views, name \in Paths, io \in IOs : VReadFile(v, name, io)
    \/ \E v \in Views, name \in Paths : VSub(v, name)
    \/ Return

SpecPaths == InitPaths /\ [][NextPaths]_vars

\* the file readers and the directory readers, and ReadFile
NextFile ==
    \/ \E name \in Paths : ZOpen(name)
    \/ \E name \in Paths, io \in IOs : ZReadFile(name, io)
    \/ \E h \in Handles, io \in IOs : FRead(h, io)
    \/ \E h \in Handles, io \in CloseIOs : FClose(h, io)
    \/ \E h \in Handles, n \in Counts : HReadDir(h, n)
    \/ \E h \in Handles : HRead(h)
    \/ \E h \in Handles : HClose(h)
    \/ Return

SpecFile == InitMix /\ [][NextFile]_vars

\* the short path arguments of the interleaved calls
MixPaths == Strs(MaxMixPathLen)

\* every call on the ZipFS, on the views and on the readers, in any order,
\* with several readers alive
NextMix ==
    \/ \E name \in MixPaths : ZOpenMix(name)
    \/ \E name \in MixPaths : ZReadDir(name)
    \/ \E name \in MixPaths, io \in IOs : ZReadFile(name, io)
    \/ \E name \in MixPaths : ZSub(name)
    \/ \E v \in Views, name \in MixPaths : VOpenMix(v, name)
    \/ \E v \in Views, name \in MixPaths : VReadDir(v, name)
    \/ \E v \in Views, name \in MixPaths, io \in IOs : VReadFile(v, name, io)
    \/ \E v \in Views, name \in MixPaths : VSub(v, name)
    \/ \E h \in Handles, io \in IOs : FRead(h, io)
    \/ \E h \in Handles, io \in CloseIOs : FClose(h, io)
    \/ \E h \in Handles, n \in Counts : HReadDir(h, n)
    \/ \E h \in Handles : HRead(h)
    \/ \E h \in Handles : HClose(h)
    \/ Return

SpecMix == InitMix /\ [][NextMix]_vars

\* package modfs: the version list, and the file system of a version
NextMod ==
    \/ \E open \in Opens, doc \in Docs : MListVersions(open, doc)
    \/ \E dir \in Paths, seekable \in BOOLEAN, fault \in Faults :
           MOpenFS(dir, seekable, fault)
    \/ \E c \in 1..Len(closers) : MCloseFS(c)
    \/ MReturn

SpecMod == InitMod /\ [][NextMod]_vars

(***************************************************************************)
(* The claims.                                                             *)
(***************************************************************************)
\* the names of the entries es
NamesOf(es) == [i \in 1..Len(es) |-> EntryName(archive, objs, es[i])]

\* the children of the directory at the cleaned path d, as the index has them
Children(d) == objs[dirs[d]].entries

\* the path of the child named n of directory d, as a caller writes it
ChildPath(d, n) == IF d = Dot THEN n ELSE d \o <<"/">> \o n

\* the path rel under directory d: d itself for the root token "."
Under(d, rel) == IF rel = Dot THEN d ELSE ChildPath(d, rel)

\* the call last was ZipFS.ReadDir and it returned a listing
ListedRoot == last.op = "ReadDir" /\ last.recv = 0 /\ last.res.kind = "ok"

\* C1: the listing ZipFS.ReadDir returns for a directory is sorted ascending
\* by entry name and holds no name twice.
C1_ReadDirSortedUnique ==
    ListedRoot =>
        LET ns == NamesOf(last.res.entries)
        IN  \A i, j \in 1..Len(ns) :
                i < j => ~StrLess(ns[j], ns[i]) /\ ns[i] # ns[j]

\* C2: every name n that ZipFS.ReadDir(D) lists resolves: ZipFS.Open(D/n)
\* returns a reader, not an error.
C2_ListedNamesOpen ==
    ListedRoot =>
        LET ns == NamesOf(last.res.entries)
        IN  \A i \in 1..Len(ns) :
                ZipOpen(Z, ChildPath(last.arg, ns[i])).kind = "ok"

\* C3: the index is a connected tree: for every key P other than "." of the
\* file map or the directory map, the directory map holds the parent path of
\* P and that parent's child set holds an entry named base(P).
C3_ConnectedTree ==
    \A P \in (DOMAIN files \cup DOMAIN dirs) \ {Dot} :
        /\ Dir(P) \in DOMAIN dirs
        /\ \E i \in 1..Len(Children(Dir(P))) : NamesOf(Children(Dir(P)))[i] = Base(P)

\* the file records of the archive that normalize to path P
FileRecordsAt(P) ==
    {i \in 1..Len(archive) : ~IsDirName(archive[i].Name) /\ Clean(archive[i].Name) = P}

\* the least element of a non-empty set of numbers
Least(S) == CHOOSE x \in S : \A y \in S : x <= y

\* C4: when several file records normalize to the same path, the index holds
\* one entry for that path and ReadFile and Open serve the data of the first
\* of these records.
C4_FirstRecordWins ==
    (/\ last.op = "ReadFile" /\ last.recv = 0 /\ last.res.kind = "ok"
     /\ Cardinality(FileRecordsAt(Clean(last.arg))) >= 2) =>
        LET P == Clean(last.arg)
            o == ZipOpen(Z, last.arg)
        IN  /\ last.res.data = Least(FileRecordsAt(P))
            /\ o.handle.kind = "file" => o.handle.file = Least(FileRecordsAt(P))
            /\ Cardinality({i \in 1..Len(Children(Dir(P))) :
                               Children(Dir(P))[i].kind = "file"
                               /\ NamesOf(Children(Dir(P)))[i] = Base(P)}) = 1

\* p is absolute or has a ".." segment
Escapes(p) ==
    \/ p # <<>> /\ p[1] = "/"
    \/ \E i \in 1..Len(Split(p)) : Split(p)[i] = DotDot

\* C5: no key of the file map or the directory map, and no entry name of any
\* directory's child set, is absolute or has a ".." segment.
C5_NoEscapingPath ==
    /\ \A P \in DOMAIN files \cup DOMAIN dirs : ~Escapes(P)
    /\ \A j \in 1..Len(objs) :
           \A i \in 1..Len(objs[j].entries) : ~Escapes(NamesOf(objs[j].entries)[i])

\* the call last was dirReader.ReadDir and it returned entries
ReadEntries == last.op = "dirReader.ReadDir" /\ last.res.kind = "ok"

\* C6: the entries a Directory Reader presents are those of the sorted
\* listing: what a call returns is the stretch of ZipFS.ReadDir's sequence
\* that ends at the reader's cursor.
C6_ReaderSorted ==
    ReadEntries =>
        LET d == handles[last.h]
            sorted == SortEntries(archive, objs, objs[d.info].entries)
        IN  last.res.entries =
                SubSeq(sorted, d.pos - Len(last.res.entries) + 1, d.pos)

\* what a call of dirReader.ReadDir(n) on reader h must do, from the cursor
\* pos it finds: the result res and the cursor after it
Paged(h, n, pos, res, posAfter) ==
    LET all == objs[handles[h].info].entries
        k == Len(all)
    IN  IF n > 0
        THEN IF pos < k
             THEN /\ res.kind = "ok"
                  /\ Len(res.entries) \in 1..n
                  /\ res.entries = SubSeq(all, pos + 1, pos + Len(res.entries))
                  /\ posAfter = pos + Len(res.entries)
             ELSE res.kind = "err" /\ res.err = "EOF" /\ posAfter = pos
        ELSE /\ res.kind = "ok"
             /\ res.entries = SubSeq(all, pos + 1, k)
             /\ posAfter = k

\* C7: every call of dirReader.ReadDir(n) with n > 0 returns between 1 and n
\* entries that continue where the cursor stood, or io.EOF once every child
\* has been returned; a call with n <= 0 returns all the remaining entries
\* and no error.
C7_Paging ==
    [][(Idle /\ last'.op = "dirReader.ReadDir") =>
          Paged(last'.h, last'.n, handles[last'.h].pos, last'.res,
                handles'[last'.h].pos)]_vars

\* the call last was Open on a view
OpenedInView == last.op = "Open" /\ last.recv > 0

\* C8: Open(rel) on the view of directory D returns what ZipFS.Open(D/rel)
\* returns: the same kind of outcome and error, the same entry on success;
\* and the path its error reports is rel.
C8_SubOpenRoundTrip ==
    OpenedInView =>
        LET D == views[last.recv].prefix
            r == last.res
            f == ZipOpen(Z, Under(D, last.arg))
        IN  /\ r.kind = f.kind
            /\ r.err = f.err
            /\ r.op = f.op
            /\ r.handle.kind = f.handle.kind
            /\ r.handle.info = f.handle.info
            /\ r.handle.file = f.handle.file
            /\ r.kind = "err" => r.path = last.arg

\* C8 happens: Open of a path that does not exist, on the view of a
\* directory inside a directory
C8_Witness ==
    /\ OpenedInView
    /\ last.res.kind = "err" /\ last.res.err = "ErrNotExist"
    /\ Len(Split(views[last.recv].prefix)) = 2

\* C9: an error that a call on a view returns for a valid path rel, and the
\* error of Read on a directory reader the view opened for rel, reports rel.
C9_ViewErrorsRelative ==
    (last.recv > 0 /\ ValidPath(last.arg)) =>
        /\ (last.res.kind = "err" /\ last.res.op # "") => last.res.path = last.arg
        /\ (last.op = "Open" /\ last.res.kind = "ok" /\ last.res.handle.kind = "dir")
               => DirRead(handles[last.hid]).path = last.arg

\* C10: Sub(".") returns its receiver: the ZipFS itself on the ZipFS, the
\* same view on a view.
C10_SubDotIdentity ==
    (last.op = "Sub" /\ last.arg = Dot /\ last.res.kind = "ok") =>
        last.fsid = last.recv

\* p is empty, starts with a separator, has an empty segment, or has a "."
\* or ".." segment and is not the lone "."
Malformed(p) ==
    \/ p = <<>>
    \/ p[1] = "/"
    \/ \E i \in 1..Len(Split(p)) : Split(p)[i] = <<>>
    \/ p # Dot /\ \E i \in 1..Len(Split(p)) : Split(p)[i] \in {Dot, DotDot}

\* the call last took a path: Open, ReadDir, ReadFile or Sub, on the ZipFS
\* or on a view
PathCall == last.op \in {"Open", "ReadDir", "ReadFile", "Sub"}

\* the path the call last names, from the root of the archive
Named == IF last.recv = 0 THEN last.arg ELSE Under(views[last.recv].prefix, last.arg)

\* C11: Open, ReadDir, ReadFile and Sub, on the ZipFS and on every view,
\* return the error ErrInvalid and nothing else for every malformed path,
\* whatever the index holds; and Open of a well-formed path that is neither
\* a file nor a directory of the index returns ErrNotExist.
C11_InvalidPathRejected ==
    /\ (PathCall /\ Malformed(last.arg)) =>
           /\ last.res.kind = "err" /\ last.res.err = "ErrInvalid"
           /\ last.res.handle = NoHandle /\ last.res.entries = <<>>
           /\ last.res.fs = NilFS /\ last.hid = 0 /\ last.fsid = -1
    /\ (last.op = "Open" /\ ~Malformed(last.arg)
            /\ Named \notin DOMAIN files \cup DOMAIN dirs) =>
           last.res.kind = "err" /\ last.res.err = "ErrNotExist"

\* C11 happens: a view has rejected a malformed path, over an index built
\* from a record that no zip writer makes
C11_Witness ==
    /\ PathCall /\ last.recv > 0 /\ Malformed(last.arg)
    /\ last.res.err = "ErrInvalid"
    /\ \E i \in 1..Len(archive) : ~WrittenName(archive[i].Name)

\* the streams that reader h has opened
StreamsBy(h) == {k \in 1..Len(streams) : streams[k].by = h}

\* reader h has had a stream closed: Close has been called on it after a Read
ClosedAfterRead(h) == \E k \in StreamsBy(h) : streams[k].closes > 0

\* C12: Open of a file opens no decompression stream (the first Read does);
\* and a Read on a file reader that has been closed opens no stream and
\* returns no data.
C12_NoReadAfterClose ==
    /\ (last.op = "Open" /\ last.res.kind = "ok" /\ last.res.handle.kind = "file") =>
           handles[last.hid].rc = 0 /\ StreamsBy(last.hid) = {}
    /\ (last.op = "fileReader.Read" /\ ClosedAfterRead(last.h)) =>
           /\ last.res.kind # "ok"
           /\ \A k \in StreamsBy(last.h) : streams[k].closes > 0

\* C13: a Close on a file reader that holds no stream (never read, or
\* closed before), and a Close on a directory reader that was closed
\* before, returns nil and changes nothing; a Close on a file reader leaves
\* every stream the reader opened released; no stream is released twice;
\* and ReadFile releases the stream it opened before it returns, whatever it
\* returns.
C13_CloseReleasesOnce ==
    [][/\ (Idle /\ last'.op = "fileReader.Close" /\ handles[last'.h].rc = 0) =>
              /\ last'.res.kind = "ok"
              /\ handles' = handles /\ streams' = streams
       /\ (Idle /\ last'.op = "dirReader.Close" /\ handles[last'.h].pos = 0) =>
              /\ last'.res.kind = "ok"
              /\ handles' = handles /\ streams' = streams
       /\ (Idle /\ last'.op = "fileReader.Close") =>
              \A k \in 1..Len(streams') :
                  streams'[k].by = last'.h => streams'[k].closes = 1
       /\ \A k \in 1..Len(streams') : streams'[k].closes <= 1
       /\ (Idle /\ last'.op = "ReadFile") => last'.released = last'.opened
      ]_vars

\* C13 happens: a file reader was read, closed, read again and closed
\* again, and both streams are released once
C13_Witness ==
    /\ last.op = "fileReader.Close"
    /\ Len(streams) = 2
    /\ \A k \in 1..2 : streams[k].by = last.h /\ streams[k].closes = 1

\* C14: for every path P that file records of the archive normalize to,
\* Open(P) returns a file reader over one of these records, reading it
\* yields the data of that record and then the end, and ReadFile(P) returns
\* the same data.
C14_OpenReadsFile ==
    /\ (/\ last.op = "Open" /\ last.recv = 0
        /\ ValidPath(last.arg) /\ FileRecordsAt(last.arg) # {}) =>
           /\ last.res.kind = "ok" /\ last.res.handle.kind = "file"
           /\ last.res.handle.file \in FileRecordsAt(last.arg)
           /\ ZipReadFile(Z, last.arg, "ok").data = last.res.handle.file
    /\ (last.op = "fileReader.Read" /\ last.res.kind = "ok") =>
           /\ last.res.data = handles[last.h].file
           /\ streams[handles[last.h].rc].eof

\* C15: when the @v/list document is opened and its k >= 1 records all
\* decode, ListVersions returns k versions, those of the records, in the
\* order of the document.
C15_ListVersionsAll ==
    (/\ mlast.op = "ListVersions" /\ mlast.open = "ok"
     /\ Len(mlast.doc) >= 1
     /\ \A i \in 1..Len(mlast.doc) : mlast.doc[i].good) =>
        /\ mlast.res.kind = "ok"
        /\ mlast.res.versions = [i \in 1..Len(mlast.doc) |-> mlast.doc[i].Version]

\* the file osfiles[i] is one that a ZipFS not closed yet is to close
Held(i) ==
    \E c \in 1..Len(closers) :
        /\ closers[c].closed = 0
        /\ i = (IF closers[c].seekable THEN closers[c].f ELSE closers[c].tmp)

\* C16: no call changes the archive, the file map, the directory map or a
\* directory's child set; and a call on one reader changes no other reader
\* (its cursor, its stream) and no stream that another reader opened, also
\* when both readers were opened on the same path.
C16_IndexAndHandlesFramed ==
    [][/\ archive' = archive /\ files' = files /\ dirs' = dirs /\ objs' = objs
       /\ \A h \in Handles : h # last'.h => handles'[h] = handles[h]
       /\ \A k \in 1..Len(streams) :
              streams[k].by # last'.h => streams'[k] = streams[k]
      ]_vars

\* C16 happens: two readers of the same record or the same directory, one
\* of them moved (a stream opened, a cursor advanced) by the last call and
\* the other as Open made it
C16_Witness ==
    /\ Len(handles) = 2
    /\ handles[1].kind = handles[2].kind
    /\ handles[1].file = handles[2].file /\ handles[1].info = handles[2].info
    /\ last.h = 2
    /\ handles[2].rc # 0 \/ handles[2].pos # 0
    /\ handles[1].rc = 0 /\ handles[1].pos = 0

\* C17: of the files OpenFS opened or created, one that a returned ZipFS is
\* still to close has not been closed, and every other one has been closed
\* once and, when it is a temporary file, removed once.
C17_OpenFSNoLeak ==
    \A i \in 1..Len(osfiles) :
        IF Held(i)
        THEN osfiles[i].closes = 0 /\ osfiles[i].removed = 0
        ELSE /\ osfiles[i].closes = 1
             /\ osfiles[i].kind = "tmp" => osfiles[i].removed = 1

====
